---- MODULE Spec2Model ----
(***************************************************************************)
(* Model of internal/terraform/plan.go of terraform-j2md: NewPlanData      *)
(* (decode, sanitize, classify, normalize) and PlanData.Render (template   *)
(* execution against an output sink).                                      *)
(*                                                                         *)
(* JSON text is a sequence of lexical units: the punctuation characters,   *)
(* the white-space characters, the digit "1", and whole string literals.   *)
(***************************************************************************)
EXTENDS Integers, Sequences, FiniteSets, TLC

(***************************************************************************)
(* Bounds of the model.                                                    *)
(***************************************************************************)
\* longest plan (number of resource changes) of the classification runs
MaxPlanLen == 2
\* longest plan of the runs that vary the before/after values
MaxValPlanLen == 1
\* longest exhaustively enumerated string leaf (in lexical units)
MaxStrLen == 3

(***************************************************************************)
(* JSON text: lexical units.                                               *)
(***************************************************************************)
LBrace == "{"
RBrace == "}"
LBrack == "["
RBrack == "]"
Colon == ":"
Comma == ","
Space == " "
Newline == "\n"
Tab == "\t"
Digit == "1"
\* the string literal "k"
StrLit == "\"k\""
\* the string literal "<", and what encoding/json's HTML escaping makes of it
LtLit == "\"<\""
LtEsc == "\"\\u003c\""
\* a character that starts no JSON value
Bad == "x"

WhiteSpace == {Space, Newline, Tab}
StringLits == {StrLit, LtLit, LtEsc}

\* first position at or after i that holds no white space (Len(s)+1 if none)
RECURSIVE SkipWs(_, _)
SkipWs(s, i) ==
  IF i <= Len(s) /\ s[i] \in WhiteSpace THEN SkipWs(s, i + 1) ELSE i

\* end of the run of digits that starts at i
RECURSIVE EndOfNumber(_, _)
EndOfNumber(s, i) ==
  IF i <= Len(s) /\ s[i] = Digit THEN EndOfNumber(s, i + 1) ELSE i

At(s, i) == IF i >= 1 /\ i <= Len(s) THEN s[i] ELSE "EOF"

\* The scanner of encoding/json as a recursive descent: each Parse operator
\* takes the position of the first unit of what it parses and returns the
\* position after it, or 0 on a syntax error.
RECURSIVE ParseValue(_, _)
RECURSIVE ParseElems(_, _)
RECURSIVE ParseMembers(_, _)
ParseValue(s, i) ==
  LET c == At(s, i) IN
  CASE c = Digit -> EndOfNumber(s, i)
    [] c \in StringLits -> i + 1
    [] c = LBrack ->
         LET j == SkipWs(s, i + 1) IN
         IF At(s, j) = RBrack THEN j + 1 ELSE ParseElems(s, j)
    [] c = LBrace ->
         LET j == SkipWs(s, i + 1) IN
         IF At(s, j) = RBrace THEN j + 1 ELSE ParseMembers(s, j)
    [] OTHER -> 0

ParseElems(s, i) ==
  LET k == ParseValue(s, i) IN
  IF k = 0 THEN 0
  ELSE LET j == SkipWs(s, k) IN
       CASE At(s, j) = Comma -> ParseElems(s, SkipWs(s, j + 1))
         [] At(s, j) = RBrack -> j + 1
         [] OTHER -> 0

ParseMembers(s, i) ==
  IF At(s, i) \notin StringLits THEN 0
  ELSE LET j == SkipWs(s, i + 1) IN
       IF At(s, j) # Colon THEN 0
       ELSE LET k == ParseValue(s, SkipWs(s, j + 1)) IN
            IF k = 0 THEN 0
            ELSE LET m == SkipWs(s, k) IN
                 CASE At(s, m) = Comma -> ParseMembers(s, SkipWs(s, m + 1))
                   [] At(s, m) = RBrace -> m + 1
                   [] OTHER -> 0

\* json.Valid: exactly one value, white space allowed around it
Valid(s) ==
  LET k == ParseValue(s, SkipWs(s, 1)) IN
  k # 0 /\ SkipWs(s, k) = Len(s) + 1

\* json.Marshal of a json.RawMessage: the raw text compacted (insignificant
\* white space dropped) with HTML characters inside strings escaped
RECURSIVE Compact(_)
Compact(s) ==
  IF s = <<>> THEN <<>>
  ELSE LET c == Head(s) IN
       IF c \in WhiteSpace THEN Compact(Tail(s))
       ELSE <<(IF c = LtLit THEN LtEsc ELSE c)>> \o Compact(Tail(s))

\* appendNewline with prefix "" and indent "  "
RECURSIVE Spaces(_)
Spaces(depth) == IF depth <= 0 THEN <<>> ELSE <<Space, Space>> \o Spaces(depth - 1)

AppendNewline(depth) == <<Newline>> \o Spaces(depth)

\* json.Indent over s from position i, with the scanner's needIndent and depth
RECURSIVE IndentFrom(_, _, _, _)
IndentFrom(s, i, needIndent, depth) ==
  IF i > Len(s) THEN <<>>
  ELSE
    LET c == s[i] IN
    IF c \in WhiteSpace THEN IndentFrom(s, i + 1, needIndent, depth)
    ELSE
      LET opens == needIndent /\ c # RBrace /\ c # RBrack
          d == IF opens THEN depth + 1 ELSE depth
          n == IF opens THEN FALSE ELSE needIndent
          pre == IF opens THEN AppendNewline(d) ELSE <<>>
      IN
      CASE c \in {LBrace, LBrack} ->
             pre \o <<c>> \o IndentFrom(s, i + 1, TRUE, d)
        [] c = Comma ->
             pre \o <<c>> \o AppendNewline(d) \o IndentFrom(s, i + 1, n, d)
        [] c = Colon ->
             pre \o <<c, Space>> \o IndentFrom(s, i + 1, n, d)
        [] c \in {RBrace, RBrack} ->
             IF n THEN <<c>> \o IndentFrom(s, i + 1, FALSE, d)
             ELSE AppendNewline(d - 1) \o <<c>> \o IndentFrom(s, i + 1, FALSE, d - 1)
        [] OTHER ->
             pre \o <<c>> \o IndentFrom(s, i + 1, n, d)

Indent(s) == IndentFrom(s, 1, FALSE, 0)

\* json.MarshalIndent(json.RawMessage(s), "", "  ") for valid s
MarshalIndentRaw(s) == Indent(Compact(s))


(***************************************************************************)
(* JSON value trees: what tfjson.Change.Before and .After (type any) hold. *)
(* kind "other" is a Go value outside the JSON kinds: format's default     *)
(* branch returns it unchanged and json.MarshalIndent rejects it.          *)
(* json.Unmarshal and sanitize.SanitizePlan never produce one, so no plan  *)
(* holds it; it is an argument of format alone.                            *)
(***************************************************************************)
NoFields == [k \in {} |-> k]

VNull == [kind |-> "null", str |-> <<>>, elems |-> <<>>, fields |-> NoFields]
VNum == [kind |-> "num", str |-> <<>>, elems |-> <<>>, fields |-> NoFields]
VBool == [kind |-> "bool", str |-> <<>>, elems |-> <<>>, fields |-> NoFields]
VOther == [kind |-> "other", str |-> <<>>, elems |-> <<>>, fields |-> NoFields]
VStr(s) == [kind |-> "str", str |-> s, elems |-> <<>>, fields |-> NoFields]
VArr(e) == [kind |-> "arr", str |-> <<>>, elems |-> e, fields |-> NoFields]
VObj(f) == [kind |-> "obj", str |-> <<>>, elems |-> <<>>, fields |-> f]

\* The array case of format written with append instead of x[i] = result.
FormatArrayAppend(old, results) == old \o results

\* format, case []any: every element is replaced by its result (x[i] = result)
FormatArray(old, results) == results

\* ResourceChangeData.format: the value returned and the error. Arrays and
\* objects are rewritten element by element; a string that is valid JSON is
\* re-encoded with two-space indentation; every other value is returned as is.
RECURSIVE format(_)
format(v) ==
  CASE v.kind = "arr" ->
         LET rs == [i \in DOMAIN v.elems |-> format(v.elems[i])] IN
         IF \E i \in DOMAIN rs : rs[i].err
           THEN [v |-> VNull, err |-> TRUE]
           ELSE [v |-> VArr(FormatArray(v.elems, [i \in DOMAIN rs |-> rs[i].v])),
                 err |-> FALSE]
    [] v.kind = "obj" ->
         LET rs == [k \in DOMAIN v.fields |-> format(v.fields[k])] IN
         IF \E k \in DOMAIN rs : rs[k].err
           THEN [v |-> VNull, err |-> TRUE]
           ELSE [v |-> VObj([k \in DOMAIN rs |-> rs[k].v]), err |-> FALSE]
    [] v.kind = "str" ->
         IF ~Valid(v.str) THEN [v |-> v, err |-> FALSE]
         ELSE [v |-> VStr(MarshalIndentRaw(v.str)), err |-> FALSE]
    [] OTHER -> [v |-> v, err |-> FALSE]

\* What a Before/After slot holds after `_, err := r.format(slot)`: the
\* returned value is discarded, so only the in-place rewriting of an array
\* or an object is kept.
FormatSlot(v) ==
  IF v.kind \in {"arr", "obj"} /\ ~format(v).err THEN format(v).v ELSE v

\* json.MarshalIndent of a value tree succeeds unless the tree holds a value
\* outside the JSON kinds.
RECURSIVE Marshals(_)
Marshals(v) ==
  CASE v.kind = "other" -> FALSE
    [] v.kind = "arr" -> \A i \in DOMAIN v.elems : Marshals(v.elems[i])
    [] v.kind = "obj" -> \A k \in DOMAIN v.fields : Marshals(v.fields[k])
    [] OTHER -> TRUE

(***************************************************************************)
(* tfjson.Actions predicates as NewPlanData and HeaderSuffix call them.    *)
(* Actions is the array of the plan's "actions"; each predicate of         *)
(* terraform-json is true of the one-element array that holds its action,  *)
(* and Replace of the two arrays [delete, create] and [create, delete].    *)
(***************************************************************************)
NoOp(a) == Len(a) = 1 /\ a[1] = "no-op"
Create(a) == Len(a) = 1 /\ a[1] = "create"
Read(a) == Len(a) = 1 /\ a[1] = "read"
Update(a) == Len(a) = 1 /\ a[1] = "update"
Delete(a) == Len(a) = 1 /\ a[1] = "delete"
Replace(a) ==
  Len(a) = 2 /\ (  (a[1] = "delete" /\ a[2] = "create")
                \/ (a[1] = "create" /\ a[2] = "delete"))


(***************************************************************************)
(* State.                                                                  *)
(***************************************************************************)
VARIABLES
  input,      \* what the caller's bytes are: whether they decode into a
              \* tfjson.Plan and whether sanitize.SanitizePlan accepts it
  sanitized,  \* sanitizedPlan.ResourceChanges as SanitizePlan returned it
  heap,       \* the same *tfjson.ResourceChange objects as they are now
              \* (format rewrites their Before/After trees in place)
  planData,   \* the *PlanData NewPlanData returned (nil before the call)
  err,        \* the error of the last call ("" is nil)
  out,        \* what the io.Writer handed to Render has received, in order
  stage,      \* "input", "built", "failed", "rendered", "render-failed"
  fmtIn,      \* the value tree handed to format
  fmtOut      \* the results of the successive applications of format

vars == <<input, sanitized, heap, planData, err, out, stage, fmtIn, fmtOut>>

\* PlanData; ResourceChanges holds pointers (positions in heap)
NilPlanData ==
  [nil |-> TRUE, CreatedAddresses |-> <<>>, UpdatedAddresses |-> <<>>,
   DeletedAddresses |-> <<>>, ReplacedAddresses |-> <<>>, ResourceChanges |-> <<>>]

EmptyPlanData == [NilPlanData EXCEPT !.nil = FALSE]

(***************************************************************************)
(* NewPlanData.                                                            *)
(***************************************************************************)
\* The guard of the loop that lets only no-op records through to `continue`.
SkipsNoOpOnly(a) == NoOp(a)

\* the guard of `continue`
Skips(a) == NoOp(a) \/ Read(a)

\* The switch without its last case.
AddressListNoReplace(a) ==
  CASE Create(a) -> "CreatedAddresses"
    [] Update(a) -> "UpdatedAddresses"
    [] Delete(a) -> "DeletedAddresses"
    [] OTHER -> ""

\* the switch: the list the address is appended to ("" when no case matches)
AddressList(a) ==
  CASE Create(a) -> "CreatedAddresses"
    [] Update(a) -> "UpdatedAddresses"
    [] Delete(a) -> "DeletedAddresses"
    [] Replace(a) -> "ReplacedAddresses"
    [] OTHER -> ""

\* An address put in front of the list.
PrependAddress(list, address) == <<address>> \o list

\* append(list, c.Address)
AppendAddress(list, address) == Append(list, address)

\* The record retained only when a case of the switch matched.
RetainMatched(pd, i, a) ==
  IF AddressList(a) = "" THEN pd
  ELSE [pd EXCEPT !.ResourceChanges = Append(@, i)]

\* append(planData.ResourceChanges, ResourceChangeData{ResourceChange: c})
Retain(pd, i, a) == [pd EXCEPT !.ResourceChanges = Append(@, i)]

\* one iteration of the loop over sanitizedPlan.ResourceChanges
ClassifyOne(pd, i, c) ==
  IF Skips(c.actions) THEN pd
  ELSE
    LET l == AddressList(c.actions)
        pd1 == IF l = "" THEN pd
               ELSE [pd EXCEPT ![l] = AppendAddress(@, c.address)]
    IN Retain(pd1, i, c.actions)

\* the loop, from record i on
RECURSIVE ClassifyFrom(_, _, _)
ClassifyFrom(pd, changes, i) ==
  IF i > Len(changes) THEN pd
  ELSE ClassifyFrom(ClassifyOne(pd, i, changes[i]), changes, i + 1)

\* ResourceChangeData.formatJsonString on the record h: the record afterwards
\* and whether an error was returned (After is not reached when Before fails)
FormatRecord(h) ==
  IF format(h.before).err
    THEN [rc |-> h, err |-> TRUE]
    ELSE LET h1 == [h EXCEPT !.before = FormatSlot(h.before)] IN
         IF format(h1.after).err
           THEN [rc |-> h1, err |-> TRUE]
           ELSE [rc |-> [h1 EXCEPT !.after = FormatSlot(h1.after)], err |-> FALSE]

\* PlanData.formatJsonString: the heap afterwards and whether it failed,
\* from the j-th retained record on
RECURSIVE FormatFrom(_, _, _)
FormatFrom(hp, rcs, j) ==
  IF j > Len(rcs) THEN [heap |-> hp, err |-> FALSE]
  ELSE LET r == FormatRecord(hp[rcs[j]]) IN
       IF r.err THEN [heap |-> [hp EXCEPT ![rcs[j]] = r.rc], err |-> TRUE]
       ELSE FormatFrom([hp EXCEPT ![rcs[j]] = r.rc], rcs, j + 1)

\* A sanitizer failure that hands back the plan built so far.
SanitizeFailureKeepsPlan == [planData |-> EmptyPlanData, err |-> "failed to sanitize plan"]

\* `return nil, fmt.Errorf("failed to sanitize plan: %w", err)`
SanitizeFailure == [planData |-> NilPlanData, err |-> "failed to sanitize plan"]

\* `return nil, fmt.Errorf("cannot parse input: %w", err)`
DecodeFailure == [planData |-> NilPlanData, err |-> "cannot parse input"]

NewPlanData ==
  /\ stage = "input"
  /\ LET r ==
       IF ~input.decodes THEN DecodeFailure
       ELSE IF ~input.sanitizes THEN SanitizeFailure
       ELSE [planData |-> ClassifyFrom(EmptyPlanData, sanitized, 1), err |-> ""]
         f == FormatFrom(heap, r.planData.ResourceChanges, 1)
     IN
       IF r.err # "" THEN
         /\ planData' = r.planData
         /\ err' = r.err
         /\ stage' = "failed"
         /\ heap' = heap
       ELSE IF f.err THEN
         /\ planData' = NilPlanData
         /\ err' = "format"
         /\ stage' = "failed"
         /\ heap' = f.heap
       ELSE
         /\ planData' = r.planData
         /\ err' = ""
         /\ stage' = "built"
         /\ heap' = f.heap
  /\ UNCHANGED <<input, sanitized, out, fmtIn, fmtOut>>


(***************************************************************************)
(* Render: planTemplateBody executed against the io.Writer. text/template  *)
(* writes every node's output to the writer as soon as it is evaluated;    *)
(* out holds those writes, one piece per template node group.              *)
(***************************************************************************)
Piece(tag, a, b, c, n, d) ==
  [tag |-> tag, a |-> a, b |-> b, c |-> c, n |-> n, diff |-> d]

\* HeaderSuffix without its last case.
HeaderSuffixNoReplace(a) ==
  CASE Create(a) -> "will be created"
    [] Update(a) -> "will be updated in-place"
    [] Delete(a) -> "will be destroyed"
    [] OTHER -> ""

\* ResourceChangeData.HeaderSuffix
HeaderSuffix(a) ==
  CASE Create(a) -> "will be created"
    [] Update(a) -> "will be updated in-place"
    [] Delete(a) -> "will be destroyed"
    [] Replace(a) -> "will be replaced"
    [] OTHER -> ""

\* ResourceChangeData.GetUnifiedDiffString: the error, or the unified diff
\* of the two indented serializations (kept as the pair it is computed from)
GetUnifiedDiffString(rc) ==
  IF ~Marshals(rc.before)
    THEN [diff |-> <<>>, err |-> "invalid resource changes (before)"]
  ELSE IF ~Marshals(rc.after)
    THEN [diff |-> <<>>, err |-> "invalid resource changes (after)"]
  ELSE [diff |-> <<rc.before, rc.after>>, err |-> ""]

\* The summary line with the counts of change and destroy exchanged.
SummaryLineSwapped(pd) ==
  Piece("summary", "", "", "",
        <<Len(pd.CreatedAddresses), Len(pd.DeletedAddresses),
          Len(pd.UpdatedAddresses), Len(pd.ReplacedAddresses)>>, <<>>)

\* `### {{len .CreatedAddresses}} to add, ... to replace.`
SummaryLine(pd) ==
  Piece("summary", "", "", "",
        <<Len(pd.CreatedAddresses), Len(pd.UpdatedAddresses),
          Len(pd.DeletedAddresses), Len(pd.ReplacedAddresses)>>, <<>>)

\* `{{- if .L}}\n- title{{ range .L }}\n    - {{. -}}\n{{end}}{{end}}`
Section(title, list) ==
  IF list = <<>> THEN <<>>
  ELSE <<Piece("section", title, "", "", <<>>, <<>>)>>
       \o [i \in DOMAIN list |-> Piece("bullet", list[i], "", "", <<>>, <<>>)]

\* the body of `{{ range .ResourceChanges }}` from the j-th retained record
\* on: the pieces written and the error that stopped the execution
RECURSIVE Blocks(_, _, _)
Blocks(hp, rcs, j) ==
  IF j > Len(rcs) THEN [out |-> <<>>, err |-> ""]
  ELSE
    LET rc == hp[rcs[j]]
        header == Piece("header", rc.type, rc.name, HeaderSuffix(rc.actions),
                        <<>>, <<>>)
        d == GetUnifiedDiffString(rc)
    IN
    IF d.err # "" THEN [out |-> <<header>>, err |-> d.err]
    ELSE LET rest == Blocks(hp, rcs, j + 1) IN
         [out |-> <<header, Piece("diff", "", "", "", <<>>, d.diff),
                    Piece("fence", "", "", "", <<>>, <<>>)>> \o rest.out,
          err |-> rest.err]

\* planTemplate.Execute(w, plan)
Execute(pd, hp) ==
  LET head == <<SummaryLine(pd)>>
                \o Section("add", pd.CreatedAddresses)
                \o Section("change", pd.UpdatedAddresses)
                \o Section("destroy", pd.DeletedAddresses)
                \o Section("replace", pd.ReplacedAddresses)
  IN
  IF pd.ResourceChanges = <<>> THEN [out |-> head, err |-> ""]
  ELSE LET b == Blocks(hp, pd.ResourceChanges, 1) IN
       IF b.err # ""
         THEN [out |-> head \o <<Piece("details", "", "", "", <<>>, <<>>)>> \o b.out,
               err |-> b.err]
         ELSE [out |-> head \o <<Piece("details", "", "", "", <<>>, <<>>)>> \o b.out
                         \o <<Piece("enddetails", "", "", "", <<>>, <<>>)>>,
               err |-> ""]

Render ==
  /\ stage = "built"
  /\ LET e == Execute(planData, heap) IN
       /\ out' = out \o e.out
       /\ err' = IF e.err = "" THEN "" ELSE "failed to render template"
       /\ stage' = IF e.err = "" THEN "rendered" ELSE "render-failed"
  /\ UNCHANGED <<input, sanitized, heap, planData, fmtIn, fmtOut>>

(***************************************************************************)
(* The successive applications of the Normalizer to one value tree.        *)
(***************************************************************************)
ApplyFormat ==
  /\ stage = "format"
  /\ Len(fmtOut) < 2
  /\ LET r == format(IF fmtOut = <<>> THEN fmtIn ELSE fmtOut[Len(fmtOut)]) IN
       /\ ~r.err
       /\ fmtOut' = Append(fmtOut, r.v)
  /\ UNCHANGED <<input, sanitized, heap, planData, err, out, stage, fmtIn>>

(***************************************************************************)
(* Inputs.                                                                 *)
(***************************************************************************)
SeqsUpTo(S, n) == UNION {[1..m -> S] : m \in 0..n}

Resources ==
  { [address |-> "aws_instance.a", type |-> "aws_instance", name |-> "a"],
    [address |-> "aws_instance.b", type |-> "aws_instance", name |-> "b"] }

\* the action arrays of the plans: the ones terraform writes, "forget" (no
\* case of the code knows it) and an array that holds no-op beside another
ActionSets ==
  { <<"no-op">>, <<"read">>, <<"create">>, <<"update">>, <<"delete">>,
    <<"delete", "create">>, <<"create", "delete">>, <<"forget">>,
    <<"no-op", "create">> }

\* the text {"k":1}
JsonText == <<LBrace, StrLit, Colon, Digit, RBrace>>

\* an attribute tree with a string leaf that holds JSON
JsonLeafObject == VObj([k \in {"user_data"} |-> VStr(JsonText)])

Change(res, actions, before, after) ==
  [address |-> res.address, type |-> res.type, name |-> res.name,
   actions |-> actions, before |-> before, after |-> after]

ClassRecords ==
  { Change(res, a, VNull, JsonLeafObject) : res \in Resources, a \in ActionSets }

Outcomes ==
  { [decodes |-> TRUE, sanitizes |-> TRUE],
    [decodes |-> TRUE, sanitizes |-> FALSE],
    [decodes |-> FALSE, sanitizes |-> FALSE] }

InitCommon ==
  /\ heap = sanitized
  /\ planData = NilPlanData
  /\ err = ""
  /\ out = <<>>

Init ==
  /\ input \in Outcomes
  /\ sanitized \in (IF input.decodes /\ input.sanitizes
                      THEN SeqsUpTo(ClassRecords, MaxPlanLen) ELSE {<<>>})
  /\ InitCommon
  /\ stage = "input"
  /\ fmtIn = VNull
  /\ fmtOut = <<>>

\* Before/After trees of every kind json.Unmarshal decodes into `any` and
\* format tells apart: null, a number, a string that is not JSON, a string
\* that is JSON, and an object and an array with such leaves.
PlanValues ==
  { VNull, VNum, VStr(<<Bad>>), VStr(JsonText), JsonLeafObject,
    VArr(<<VStr(JsonText), VNum>>) }

ValueActionSets == { <<"create">>, <<"no-op">>, <<"forget">> }

ValueRecords ==
  { Change(res, a, b, f) :
      res \in {r \in Resources : r.name = "a"}, a \in ValueActionSets,
      b \in PlanValues, f \in PlanValues }

InitValues ==
  /\ input = [decodes |-> TRUE, sanitizes |-> TRUE]
  /\ sanitized \in (SeqsUpTo(ValueRecords, MaxValPlanLen) \ {<<>>})
  /\ InitCommon
  /\ stage = "input"
  /\ fmtIn = VNull
  /\ fmtOut = <<>>

Alphabet ==
  { LBrace, RBrace, LBrack, RBrack, Colon, Comma, Space, Newline, Digit,
    StrLit, LtLit, Bad }

LongTexts ==
  { JsonText,
    <<LBrace, StrLit, Colon, LBrack, Digit, Comma, Digit, RBrack, Comma,
      StrLit, Colon, LtLit, RBrace>>,
    <<Space, LBrack, Space, LBrace, StrLit, Space, Colon, LBrace, RBrace,
      RBrace, Tab, Comma, Digit, Digit, Newline, RBrack, Space>>,
    <<LBrace, Newline, Space, Space, StrLit, Colon, Space, LtEsc, Newline,
      RBrace>>,
    <<LBrace, StrLit, Colon, Digit, RBrace, RBrace>> }

FormatLeaves ==
  { VNull, VNum, VBool, VOther, VArr(<<>>), VObj(NoFields) }
    \cup { VStr(s) : s \in LongTexts }

FormatInputs ==
  { VStr(s) : s \in SeqsUpTo(Alphabet, MaxStrLen) }
    \cup FormatLeaves
    \cup { VArr(<<x, y>>) : x \in FormatLeaves, y \in FormatLeaves }
    \cup { VObj([k \in {"a", "b"} |-> IF k = "a" THEN x ELSE VArr(<<y>>)]) :
             x \in FormatLeaves, y \in FormatLeaves }

InitFormat ==
  /\ input = [decodes |-> TRUE, sanitizes |-> TRUE]
  /\ sanitized = <<>>
  /\ InitCommon
  /\ stage = "format"
  /\ fmtIn \in FormatInputs
  /\ fmtOut = <<>>

Next == NewPlanData \/ Render

NextFormat == ApplyFormat

Spec == Init /\ [][Next]_vars

SpecValues == InitValues /\ [][Next]_vars

SpecFormat == InitFormat /\ [][NextFormat]_vars


(***************************************************************************)
(* Properties.                                                             *)
(***************************************************************************)
Range(s) == {s[i] : i \in DOMAIN s}

\* NewPlanData returned a PlanData
Accepted == stage \in {"built", "rendered", "render-failed"}

UniqueAddresses ==
  \A i, j \in DOMAIN sanitized :
    sanitized[i].address = sanitized[j].address => i = j

ListNames ==
  {"CreatedAddresses", "UpdatedAddresses", "DeletedAddresses", "ReplacedAddresses"}

ListedAddresses == UNION {Range(planData[l]) : l \in ListNames}

PairwiseDisjoint ==
  \A l, m \in ListNames : l # m => Range(planData[l]) \cap Range(planData[m]) = {}

\* the action arrays the four cases of the switch accept
KnownActionArrays ==
  { <<"create">>, <<"update">>, <<"delete">>,
    <<"delete", "create">>, <<"create", "delete">> }

SkippedActionArrays == { <<"no-op">>, <<"read">> }

\* the action array holds no-op or read
HoldsNoOpOrRead(a) == {"no-op", "read"} \cap Range(a) # {}

IsHeader(p) == p.tag = "header"

\* the headers of the diff blocks written, in order
Headers == SelectSeq(out, IsHeader)

\* t is s with some elements left out
RECURSIVE IsSubsequence(_, _)
IsSubsequence(s, t) ==
  IF s = <<>> THEN TRUE
  ELSE IF t = <<>> THEN FALSE
  ELSE IF Head(s) = Head(t) THEN IsSubsequence(Tail(s), Tail(t))
  ELSE IsSubsequence(s, Tail(t))

PlanAddresses == [i \in DOMAIN sanitized |-> sanitized[i].address]

\* C1 as stated: for an accepted plan the four lists together hold exactly
\* the addresses of the changes that are neither no-op nor read, and (the
\* addresses being unique) they are pairwise disjoint.
C1_AsStated ==
  Accepted =>
    /\ ListedAddresses =
         { sanitized[i].address :
             i \in {j \in DOMAIN sanitized : ~HoldsNoOpOrRead(sanitized[j].actions)} }
    /\ UniqueAddresses => PairwiseDisjoint

\* C1 amended: for an accepted plan the four lists together hold exactly the
\* addresses of the changes whose action array is [create], [update],
\* [delete], [delete,create] or [create,delete], and (the addresses being
\* unique) they are pairwise disjoint.
C1_ClassificationCompleteness ==
  Accepted =>
    /\ ListedAddresses =
         { sanitized[i].address :
             i \in {j \in DOMAIN sanitized :
                      sanitized[j].actions \in KnownActionArrays} }
    /\ UniqueAddresses => PairwiseDisjoint

C1_Witness ==
  /\ stage = "built"
  /\ UniqueAddresses
  /\ planData.ReplacedAddresses # <<>>
  /\ \E i \in DOMAIN sanitized : sanitized[i].actions = <<"forget">>

\* C2: every address list is a subsequence of the plan's addresses in plan
\* order, the retained changes are in plan order, and the diff blocks are
\* written in that order.
C2_OrderPreservation ==
  Accepted =>
    /\ \A l \in ListNames : IsSubsequence(planData[l], PlanAddresses)
    /\ \A p, q \in DOMAIN planData.ResourceChanges :
         p < q => planData.ResourceChanges[p] < planData.ResourceChanges[q]
    /\ UniqueAddresses =>
         \A l \in ListNames : \A p, q \in DOMAIN planData[l] :
           p < q =>
             \E i, j \in DOMAIN sanitized :
               /\ i < j
               /\ sanitized[i].address = planData[l][p]
               /\ sanitized[j].address = planData[l][q]
    /\ stage = "rendered" =>
         /\ Len(Headers) = Len(planData.ResourceChanges)
         /\ \A p \in DOMAIN Headers :
              /\ Headers[p].a = sanitized[planData.ResourceChanges[p]].type
              /\ Headers[p].b = sanitized[planData.ResourceChanges[p]].name

C2_Witness ==
  /\ stage = "rendered"
  /\ Len(planData.CreatedAddresses) = 2
  /\ planData.CreatedAddresses[1] # planData.CreatedAddresses[2]

\* position i of the plan is in none of the lists and is not retained, its
\* trees are as the sanitizer returned them, and no diff block is written
\* for it
Dropped(i) ==
  /\ UniqueAddresses => sanitized[i].address \notin ListedAddresses
  /\ i \notin Range(planData.ResourceChanges)
  /\ heap[i] = sanitized[i]
  /\ UniqueAddresses =>
       \A p \in DOMAIN Headers :
         ~(Headers[p].a = sanitized[i].type /\ Headers[p].b = sanitized[i].name)

\* C3 as stated: a change whose action array contains no-op or read is
\* skipped: in no list, not retained, never normalized, no diff block.
C3_AsStated ==
  Accepted =>
    \A i \in DOMAIN sanitized :
      HoldsNoOpOrRead(sanitized[i].actions) => Dropped(i)

\* C3 amended: a change whose action array is exactly [no-op] or exactly
\* [read] is skipped: in no list, not retained, never normalized, no diff
\* block.
C3_SkipNoOpAndRead ==
  Accepted =>
    \A i \in DOMAIN sanitized :
      sanitized[i].actions \in SkippedActionArrays => Dropped(i)

C3_Witness ==
  /\ stage = "rendered"
  /\ Len(sanitized) = 2
  /\ UniqueAddresses
  /\ sanitized[1].actions = <<"read">>
  /\ sanitized[2].actions = <<"create">>

\* C4: NewPlanData returns nil and an error when decoding or sanitizing (or
\* normalizing) fails, and a PlanData only when all of them succeeded, every
\* retained record then being normalized.
C4_AllOrNothing ==
  /\ stage = "failed" => planData = NilPlanData /\ err # ""
  /\ (stage # "input" /\ ~(input.decodes /\ input.sanitizes)) => stage = "failed"
  /\ Accepted =>
       /\ ~planData.nil
       /\ input.decodes /\ input.sanitizes
       /\ stage = "built" => err = ""
       /\ \A p \in DOMAIN planData.ResourceChanges :
            LET i == planData.ResourceChanges[p] IN
            /\ ~format(sanitized[i].before).err
            /\ ~format(sanitized[i].after).err
            /\ heap[i].after = format(sanitized[i].after).v

C4_Witness ==
  /\ stage = "failed"
  /\ input.decodes
  /\ ~input.sanitizes
  /\ err = "failed to sanitize plan"

\* C5: when Render fails on the diff of a retained change, the output sink
\* has received nothing. No plan NewPlanData accepts makes
\* GetUnifiedDiffString fail (its trees hold JSON kinds only, which
\* json.MarshalIndent always encodes, and difflib writes to memory), so no
\* reachable state has stage "render-failed" and the formula is true of the
\* reachable states without its case ever happening.
C5_NoPartialReport ==
  stage = "render-failed" => out = <<>>

\* C6: format(format(v)) = format(v).
C6_FormatIdempotent ==
  Len(fmtOut) = 2 => fmtOut[2] = fmtOut[1]

C6_Witness ==
  /\ Len(fmtOut) = 2
  /\ fmtIn.kind = "arr"
  /\ Len(fmtIn.elems) = 2
  /\ fmtIn.elems[1].kind = "str"
  /\ fmtOut[1].elems[1] # fmtIn.elems[1]


\* the bullets written right after position p of the output
RECURSIVE BulletsFrom(_, _)
BulletsFrom(o, p) ==
  IF p <= Len(o) /\ o[p].tag = "bullet"
    THEN <<o[p].a>> \o BulletsFrom(o, p + 1)
    ELSE <<>>

SectionPositions(title) ==
  {p \in DOMAIN out : out[p].tag = "section" /\ out[p].a = title}

\* the section `title` is written exactly when list is not empty, once, with
\* one bullet per address in list order
SectionMatches(title, list) ==
  IF list = <<>> THEN SectionPositions(title) = {}
  ELSE /\ Cardinality(SectionPositions(title)) = 1
       /\ \A p \in SectionPositions(title) : BulletsFrom(out, p + 1) = list

\* C7: in the text of a successful Render the four counts of the summary
\* line are the lengths of the four lists, and each section is written
\* exactly when its list is not empty, with one bullet per address in order.
C7_CountConsistency ==
  stage = "rendered" =>
    /\ out # <<>>
    /\ out[1].tag = "summary"
    /\ \A p \in DOMAIN out : p > 1 => out[p].tag # "summary"
    /\ out[1].n = <<Len(planData.CreatedAddresses), Len(planData.UpdatedAddresses),
                    Len(planData.DeletedAddresses), Len(planData.ReplacedAddresses)>>
    /\ SectionMatches("add", planData.CreatedAddresses)
    /\ SectionMatches("change", planData.UpdatedAddresses)
    /\ SectionMatches("destroy", planData.DeletedAddresses)
    /\ SectionMatches("replace", planData.ReplacedAddresses)
    /\ Cardinality({p \in DOMAIN out : out[p].tag = "bullet"}) =
         Len(planData.CreatedAddresses) + Len(planData.UpdatedAddresses)
           + Len(planData.DeletedAddresses) + Len(planData.ReplacedAddresses)

C7_Witness ==
  /\ stage = "rendered"
  /\ Len(planData.UpdatedAddresses) = 2
  /\ planData.DeletedAddresses = <<>>
  /\ planData.CreatedAddresses = <<>>

\* the action array is not skipped and matches no case of the switch
MatchesNone(a) == ~HoldsNoOpOrRead(a) /\ a \notin KnownActionArrays

SumOfCounts ==
  Len(planData.CreatedAddresses) + Len(planData.UpdatedAddresses)
    + Len(planData.DeletedAddresses) + Len(planData.ReplacedAddresses)

\* C8 as stated: a change that is not no-op/read and matches none of create,
\* update, delete, replace is in none of the four lists and is not retained,
\* so the number of diff blocks is the sum of the four counts.
C8_AsStated ==
  /\ Accepted =>
       \A i \in DOMAIN sanitized :
         MatchesNone(sanitized[i].actions) =>
           /\ UniqueAddresses => sanitized[i].address \notin ListedAddresses
           /\ i \notin Range(planData.ResourceChanges)
  /\ stage = "rendered" => Len(Headers) = SumOfCounts

\* the action array is neither [no-op] nor [read] and matches no case of the
\* switch
Unmatched(a) == a \notin SkippedActionArrays /\ a \notin KnownActionArrays

\* C8 amended: a change whose action array is neither [no-op] nor [read] and
\* matches none of create, update, delete, replace is in none of the four
\* lists but is retained: its diff block is written under an empty header
\* suffix, and the number of diff blocks is the sum of the four counts plus
\* the number of such changes.
C8_UnmatchedKeptWithoutAddress ==
  /\ Accepted =>
       \A i \in DOMAIN sanitized :
         Unmatched(sanitized[i].actions) =>
           /\ UniqueAddresses => sanitized[i].address \notin ListedAddresses
           /\ Cardinality({p \in DOMAIN planData.ResourceChanges :
                             planData.ResourceChanges[p] = i}) = 1
  /\ stage = "rendered" =>
       /\ Len(Headers) =
            SumOfCounts
              + Cardinality({i \in DOMAIN sanitized : Unmatched(sanitized[i].actions)})
       /\ \A p \in DOMAIN Headers :
            Unmatched(sanitized[planData.ResourceChanges[p]].actions)
              => Headers[p].c = ""

C8_Witness ==
  /\ stage = "rendered"
  /\ Len(sanitized) = 2
  /\ sanitized[1].actions = <<"forget">>
  /\ sanitized[2].actions = <<"update">>
  /\ Len(Headers) = 2

\* C9 as stated: after NewPlanData succeeds the stored before and after of
\* every retained change are the normalized sanitized values, whatever the
\* kind of the top-level value.
C9_StoredIsNormalized ==
  stage = "built" =>
    \A p \in DOMAIN planData.ResourceChanges :
      LET i == planData.ResourceChanges[p] IN
      /\ heap[i].before = format(sanitized[i].before).v
      /\ heap[i].after = format(sanitized[i].after).v

\* the addresses of the retained changes, from the p-th on, whose header
\* suffix is s
RECURSIVE AddressesWithSuffix(_, _)
AddressesWithSuffix(s, p) ==
  IF p > Len(planData.ResourceChanges) THEN <<>>
  ELSE LET rc == heap[planData.ResourceChanges[p]] IN
       (IF HeaderSuffix(rc.actions) = s THEN <<rc.address>> ELSE <<>>)
         \o AddressesWithSuffix(s, p + 1)

\* C10: the retained changes whose header suffix is "will be created" are
\* exactly the ones appended to CreatedAddresses, and likewise for updated,
\* destroyed and replaced; the ones with the empty suffix are in no list;
\* the headers written carry these suffixes.
C10_SuffixAgreesWithClassification ==
  /\ Accepted =>
       /\ planData.CreatedAddresses = AddressesWithSuffix("will be created", 1)
       /\ planData.UpdatedAddresses = AddressesWithSuffix("will be updated in-place", 1)
       /\ planData.DeletedAddresses = AddressesWithSuffix("will be destroyed", 1)
       /\ planData.ReplacedAddresses = AddressesWithSuffix("will be replaced", 1)
       /\ Len(AddressesWithSuffix("", 1)) = Len(planData.ResourceChanges) - SumOfCounts
       /\ UniqueAddresses =>
            \A a \in Range(AddressesWithSuffix("", 1)) : a \notin ListedAddresses
  /\ stage = "rendered" =>
       \A p \in DOMAIN Headers :
         Headers[p].c = HeaderSuffix(heap[planData.ResourceChanges[p]].actions)

C10_Witness ==
  /\ stage = "rendered"
  /\ Len(sanitized) = 2
  /\ sanitized[1].actions = <<"create", "delete">>
  /\ sanitized[2].actions = <<"forget">>
  /\ Headers[1].c = "will be replaced"
  /\ Headers[2].c = ""

====
